---- MODULE Spec2Model ----
(***************************************************************************)
(* Model of src/server.js: the Express application that receives the       *)
(* design-tool webhook (POST /figma-webhook) and the payment-processor     *)
(* webhook (POST /api/stripe/webhook), verifies each request's signature   *)
(* and stores design-tool events in the MongoDB collection figma_events.   *)
(*                                                                         *)
(* A request body on the wire is a sequence of tokens (whitespace, object  *)
(* members with their literal text, or junk); JSON.parse and               *)
(* JSON.stringify are modelled by what they do to that sequence.           *)
(* HMAC-SHA256 is an ideal MAC: the digest determines key and message.     *)
(* The stray fragment at src/server.js:205-210 is not part of the model.   *)
(***************************************************************************)
EXTENDS Integers, Sequences, FiniteSets, TLC

\* Number of requests the server handles in one behaviour.
MaxReq == 2

\* Length of the hex encoding of a SHA-256 digest: digest('hex').
DigestLen == 64

----------------------------------------------------------------------------
(* Wire bytes and JSON *)

SP == [t |-> "ws", k |-> "", type |-> "", text |-> " "]
TAB == [t |-> "ws", k |-> "", type |-> "", text |-> "\t"]
JUNK == [t |-> "junk", k |-> "", type |-> "", text |-> "}{"]
Str(key, s) == [t |-> "member", k |-> key, type |-> "string", text |-> s]
Num(key, s) == [t |-> "member", k |-> key, type |-> "number", text |-> s]

\* What JSON.parse makes of a literal: a number literal becomes the nearest
\* IEEE-754 double (9007199254740993 = 2^53 + 1 is not representable).
ParseLit(tok) ==
  IF tok.type = "number"
  THEN [type |-> "number",
        val |-> IF tok.text = "9007199254740993" THEN "9007199254740992"
                ELSE tok.text]
  ELSE [type |-> "string", val |-> tok.text]

HasKey(obj, key) == \E j \in 1..Len(obj) : obj[j].k = key

\* Assigning a property: a new key is appended in insertion order, an
\* existing key keeps its position and takes the new value.
PutProp(obj, key, v) ==
  IF HasKey(obj, key)
  THEN [j \in 1..Len(obj) |->
          IF obj[j].k = key THEN [k |-> key, v |-> v] ELSE obj[j]]
  ELSE Append(obj, [k |-> key, v |-> v])

RECURSIVE ParseMembers(_, _)
ParseMembers(raw, obj) ==
  IF raw = <<>> THEN obj
  ELSE IF Head(raw).t = "ws" THEN ParseMembers(Tail(raw), obj)
  ELSE ParseMembers(Tail(raw), PutProp(obj, Head(raw).k, ParseLit(Head(raw))))

Parseable(raw) == \A j \in 1..Len(raw) : raw[j].t # "junk"

\* JSON.parse of the wire bytes of an object (insignificant whitespace is
\* dropped); defined for Parseable bodies.
JSONparse(raw) == ParseMembers(raw, <<>>)

\* JSON.stringify: the members in insertion order, no whitespace, each
\* value in its canonical text.
JSONstringify(obj) ==
  [j \in 1..Len(obj) |->
     [t |-> "member", k |-> obj[j].k, type |-> obj[j].v.type,
      text |-> obj[j].v.val]]

Undefined == [type |-> "undefined", val |-> ""]

\* obj[key], undefined when the property is absent.
GetProp(obj, key) ==
  IF HasKey(obj, key)
  THEN (CHOOSE p \in {obj[j] : j \in 1..Len(obj)} : p.k = key).v
  ELSE Undefined

\* The rest properties of `const { event_type, file_key, ...rest } = body`.
RestProps(obj) ==
  LET Keep(p) == p.k \notin {"event_type", "file_key"}
  IN SelectSeq(obj, Keep)

----------------------------------------------------------------------------
(* Signatures *)

\* crypto.createHmac('sha256', key).update(msg): an ideal MAC.
Hmac(key, msg) == [key |-> key, msg |-> msg]

NoMac == Hmac("", <<>>)

\* A header value as Buffer.from sees it: its byte length and its content.
Header(len, mac) == [present |-> TRUE, len |-> len, mac |-> mac, fresh |-> TRUE]
Absent == [present |-> FALSE, len |-> 0, mac |-> NoMac, fresh |-> TRUE]
EmptyHeader == Header(0, NoMac)

\* The hex digest of a MAC, as a header value.
HexDigest(mac) == Header(DigestLen, mac)


\* Buffer.from(string): the bytes of the header value.
BufferFrom(h) == [len |-> h.len, mac |-> h.mac]

\* timingSafeEqual comparing the lengths only.
timingSafeEqualLengthOnly(a, b) ==
  IF a.len # b.len THEN "RangeError" ELSE "true"

\* crypto.timingSafeEqual(a, b): throws RangeError when the byte lengths
\* differ, otherwise compares the contents.
timingSafeEqual(a, b) ==
  IF a.len # b.len THEN "RangeError"
  ELSE IF a.mac = b.mac THEN "true" ELSE "false"

----------------------------------------------------------------------------
(* State *)

VARIABLES
  FIGMA_SECRET,   \* process.env.FIGMA_SECRET ("" when unset or empty)
  req,            \* the requests, by arrival number
  figma_events,   \* the MongoDB collection, in insertion order
  alive           \* FALSE once the process has exited

vars == <<FIGMA_SECRET, req, figma_events, alive>>

FigmaPath == "/figma-webhook"
StripePath == "/api/stripe/webhook"
JsonType == "application/json"
TextType == "text/plain"

\* process.env.STRIPE_WEBHOOK_SECRET
STRIPE_WEBHOOK_SECRET == "whsec"

\* The shared secret the design tool signs with.
SenderSecret == "s3cr3t"

ReqIds == 1..MaxReq

NoBody == [kind |-> "unset", val |-> <<>>]

NoDoc ==
  [_id |-> 0, event_type |-> Undefined, file_key |-> Undefined,
   payload |-> <<>>, received_at |-> 0]

Idle ==
  [id |-> 0, pc |-> "idle", route |-> "", ctype |-> "", raw |-> <<>>,
   sig |-> Absent, body |-> NoBody, ran |-> <<>>, verdict |-> "none",
   status |-> 0, doc |-> NoDoc, err |-> FALSE, grant |-> ""]

----------------------------------------------------------------------------
(* Signature verification of the design-tool webhook *)

\* verifySignature without the skip for an unset secret.
verifySignatureNoSkip(r) ==
  LET signatureHeader == r.sig IN
  IF ~signatureHeader.present \/ signatureHeader.len = 0 THEN "false"
  ELSE timingSafeEqual(
         BufferFrom(signatureHeader),
         BufferFrom(HexDigest(Hmac(FIGMA_SECRET, JSONstringify(r.body.val)))))

verifySignature(r) ==
  LET secret == FIGMA_SECRET IN
  IF secret = "" THEN "true"
  ELSE LET signatureHeader == r.sig IN
    IF ~signatureHeader.present \/ signatureHeader.len = 0 THEN "false"
    ELSE LET rawBody == JSONstringify(r.body.val)
             digest == HexDigest(Hmac(secret, rawBody))
         IN timingSafeEqual(BufferFrom(signatureHeader), BufferFrom(digest))

\* stripe.webhooks.constructEvent(payload, header, secret): throws unless
\* the payload is the raw bytes, the header carries the signature of those
\* bytes under the secret with a timestamp inside the tolerance, and the
\* bytes parse; returns the parsed event otherwise.
constructEvent(payload, header, secret) ==
  IF /\ payload.kind = "raw"
     /\ header.present
     /\ header.mac = Hmac(secret, payload.val)
     /\ header.fresh
     /\ Parseable(payload.val)
  THEN [ok |-> TRUE, event |-> JSONparse(payload.val)]
  ELSE [ok |-> FALSE, event |-> <<>>]

----------------------------------------------------------------------------
(* Middleware and route handlers, in registration order *)

\* A body parser has already read the body (req._body).
BodyRead(r) == r.body.kind \in {"raw", "parsed"}

\* bodyParser.raw({ type: 'application/json' })
rawParser(r) ==
  LET r1 == [r EXCEPT !.ran = Append(@, "bodyParser.raw")] IN
  IF BodyRead(r1) THEN r1
  ELSE IF r1.ctype = JsonType
  THEN [r1 EXCEPT !.body = [kind |-> "raw", val |-> r1.raw]]
  ELSE [r1 EXCEPT !.body = [kind |-> "empty", val |-> <<>>]]

\* express.json() passing a body that does not parse on as an empty object.
jsonParserLenient(r) ==
  LET r1 == [r EXCEPT !.ran = Append(@, "express.json")] IN
  IF BodyRead(r1) THEN r1
  ELSE IF r1.ctype = JsonType /\ Parseable(r1.raw)
  THEN [r1 EXCEPT !.body = [kind |-> "parsed", val |-> JSONparse(r1.raw)]]
  ELSE [r1 EXCEPT !.body = [kind |-> "empty", val |-> <<>>]]

\* express.json(): a body that does not parse ends the request with 400.
jsonParser(r) ==
  LET r1 == [r EXCEPT !.ran = Append(@, "express.json")] IN
  IF BodyRead(r1) THEN r1
  ELSE IF r1.ctype = JsonType
  THEN IF Parseable(r1.raw)
       THEN [r1 EXCEPT !.body = [kind |-> "parsed", val |-> JSONparse(r1.raw)]]
       ELSE [r1 EXCEPT !.pc = "done", !.status = 400]
  ELSE [r1 EXCEPT !.body = [kind |-> "empty", val |-> <<>>]]

\* The document holding the whole body as its payload.
NewDocWholeBody(r) ==
  [_id |-> r.id,
   event_type |-> GetProp(r.body.val, "event_type"),
   file_key |-> GetProp(r.body.val, "file_key"),
   payload |-> r.body.val,
   received_at |-> r.id]

\* The document FigmaEvent.create builds from the request body.
NewDoc(r) ==
  [_id |-> r.id,
   event_type |-> GetProp(r.body.val, "event_type"),
   file_key |-> GetProp(r.body.val, "file_key"),
   payload |-> RestProps(r.body.val),
   received_at |-> r.id]

\* The handler storing the event whatever the verdict.
figmaWebhookUnchecked(r) ==
  LET r1 == [r EXCEPT !.ran = Append(@, "figmaWebhook")]
      v == verifySignature(r1)
  IN IF v = "RangeError"
     THEN [r1 EXCEPT !.verdict = v, !.pc = "thrown"]
     ELSE [r1 EXCEPT !.verdict = v, !.pc = "awaiting", !.doc = NewDoc(r1)]

\* app.post('/figma-webhook'), up to its await.
figmaWebhook(r) ==
  LET r1 == [r EXCEPT !.ran = Append(@, "figmaWebhook")]
      v == verifySignature(r1)
  IN IF v = "false"
     THEN [r1 EXCEPT !.verdict = v, !.pc = "done", !.status = 401]
     ELSE IF v = "RangeError"
     THEN [r1 EXCEPT !.verdict = v, !.pc = "thrown"]
     ELSE [r1 EXCEPT !.verdict = v, !.pc = "awaiting", !.doc = NewDoc(r1)]

\* The handler answering 200 whatever constructEvent does.
stripeWebhookAlwaysOk(r) ==
  LET r1 == [r EXCEPT !.ran = Append(@, "stripeWebhook")]
      e == constructEvent(r1.body, r1.sig, STRIPE_WEBHOOK_SECRET)
  IN [r1 EXCEPT !.verdict = IF e.ok THEN "true" ELSE "false",
                !.pc = "done", !.status = 200]

\* The handler saving the verified event in the event collection.
stripeWebhookStoring(r) ==
  LET r1 == [r EXCEPT !.ran = Append(@, "stripeWebhook")]
      e == constructEvent(r1.body, r1.sig, STRIPE_WEBHOOK_SECRET)
  IN IF e.ok
     THEN [r1 EXCEPT !.verdict = "true", !.pc = "awaiting",
                     !.doc = [NoDoc EXCEPT !._id = r1.id,
                                           !.file_key = GetProp(e.event, "id")]]
     ELSE [r1 EXCEPT !.verdict = "false", !.pc = "done", !.status = 400]

\* app.post('/api/stripe/webhook', bodyParser.raw(...), handler): the
\* branch for checkout.session.completed reads the session and does
\* nothing with it (its body is a TODO comment), so no grant is emitted.
stripeWebhook(r) ==
  LET r1 == [r EXCEPT !.ran = Append(@, "stripeWebhook")]
      e == constructEvent(r1.body, r1.sig, STRIPE_WEBHOOK_SECRET)
  IN IF e.ok
     THEN LET session == GetProp(e.event, "customer")
              r2 == IF GetProp(e.event, "type").val = "checkout.session.completed"
                    THEN [r1 EXCEPT !.grant = ""]
                    ELSE r1
          IN [r2 EXCEPT !.verdict = "true", !.pc = "done", !.status = 200]
     ELSE [r1 EXCEPT !.verdict = "false", !.pc = "done", !.status = 400]

\* The stack with express.json registered before the routes.
AppJsonFirst == <<"express.json", "stripeRoute", "figmaRoute">>

\* The application's stack, in the order the layers are registered.
App == <<"stripeRoute", "express.json", "figmaRoute">>

RECURSIVE Route(_, _, _)
Route(stack, n, r) ==
  IF n > Len(stack) THEN [r EXCEPT !.pc = "done", !.status = 404]
  ELSE IF stack[n] = "stripeRoute"
  THEN IF r.route = StripePath THEN stripeWebhook(rawParser(r))
       ELSE Route(stack, n + 1, r)
  ELSE IF stack[n] = "express.json"
  THEN LET r1 == jsonParser(r)
       IN IF r1.pc = "done" THEN r1 ELSE Route(stack, n + 1, r1)
  ELSE IF r.route = FigmaPath THEN figmaWebhook(r)
       ELSE Route(stack, n + 1, r)

----------------------------------------------------------------------------
(* Requests the senders make *)

\* Scenario A's payload, compact: JSON.stringify of its parse is itself.
Bc == <<Str("event_type", "file_update"), Str("file_key", "abc123"),
        Str("extra", "x")>>
\* The same file, another payload (one byte of Bc changed).
By == <<Str("event_type", "file_update"), Str("file_key", "abc123"),
        Str("extra", "y")>>
\* Bc with a space, and with a tab, after the first member.
Bsp == <<Str("event_type", "file_update"), SP, Str("file_key", "abc123"),
         Str("extra", "x")>>
Btab == <<Str("event_type", "file_update"), TAB, Str("file_key", "abc123"),
          Str("extra", "x")>>
\* A payload with a large integer, and the same with its last digit changed.
Bn == <<Str("event_type", "file_comment"), Str("file_key", "zzz999"),
        Num("version", "9007199254740992")>>
Bn1 == <<Str("event_type", "file_comment"), Str("file_key", "zzz999"),
         Num("version", "9007199254740993")>>
\* Bytes that are not JSON.
Bbad == <<JUNK>>
\* A payment-processor event.
Bev == <<Str("id", "evt_1"), Str("type", "checkout.session.completed"),
         Str("customer", "cus_1")>>

WireBodies == {Bc, By, Bsp, Btab, Bn, Bn1, Bbad}

\* The signature header the design tool sends with a body: the hex
\* HMAC-SHA256 of the wire bytes under the shared secret.
Signed(raw) == HexDigest(Hmac(SenderSecret, raw))

\* The header the payment processor sends with a body.
StripeSigned(raw) == Header(DigestLen, Hmac(STRIPE_WEBHOOK_SECRET, raw))

\* The same header replayed after the timestamp tolerance has passed.
StripeStale(raw) == [StripeSigned(raw) EXCEPT !.fresh = FALSE]

In(route, ctype, raw, sig) ==
  [route |-> route, ctype |-> ctype, raw |-> raw, sig |-> sig]

FigmaInputs ==
  { In(FigmaPath, JsonType, Bc, Signed(Bc)),
    In(FigmaPath, JsonType, By, Signed(By)),
    In(FigmaPath, JsonType, Bsp, Signed(Bsp)),
    In(FigmaPath, JsonType, Btab, Signed(Bc)),
    In(FigmaPath, JsonType, Bn1, Signed(Bn)),
    In(FigmaPath, JsonType, Bc, Absent),
    In(FigmaPath, JsonType, Bc, Signed(By)),
    In(FigmaPath, JsonType, Bc, Header(DigestLen - 1, Hmac(SenderSecret, Bc))),
    In(FigmaPath, JsonType, Bc, EmptyHeader),
    In(FigmaPath, JsonType, Bbad, Signed(Bbad)),
    In(FigmaPath, TextType, Bc, Signed(Bc)),
    In(FigmaPath, TextType, Bbad, Signed(Bbad)) }

StripeInputs ==
  { In(StripePath, JsonType, Bev, StripeSigned(Bev)),
    In(StripePath, TextType, Bev, StripeSigned(Bev)),
    In(StripePath, JsonType, Bev, StripeSigned(Bc)),
    In(StripePath, JsonType, Bev, Absent),
    In(StripePath, JsonType, Bev, StripeStale(Bev)) }

Inputs == FigmaInputs \cup StripeInputs

----------------------------------------------------------------------------
(* Actions *)

Init ==
  /\ FIGMA_SECRET \in {"", SenderSecret}
  /\ req = [i \in ReqIds |-> Idle]
  /\ figma_events = <<>>
  /\ alive = TRUE

Arriving(i, in) ==
  [Idle EXCEPT !.id = i, !.pc = "routing", !.route = in.route,
               !.ctype = in.ctype, !.raw = in.raw, !.sig = in.sig]

\* What becomes of a request whose async handler threw: Express 4 drops the
\* rejected promise and the request is never answered; Express 5 passes it
\* to the default error handler (500); a Node.js that exits on unhandled
\* rejections ends the process.
Rejected(r, o) ==
  IF o = "error500" THEN [r EXCEPT !.pc = "done", !.status = 500]
  ELSE [r EXCEPT !.pc = "unanswered"]

\* A request arrives and runs through the stack up to its response or its
\* first await.
Deliver(i) ==
  /\ alive
  /\ req[i].pc = "idle"
  /\ IF i = 1 THEN TRUE ELSE req[i - 1].pc # "idle"
  /\ \E in \in Inputs :
       LET r == Route(App, 1, Arriving(i, in)) IN
       IF r.pc = "thrown"
       THEN \E o \in {"unanswered", "error500", "exit"} :
              /\ req' = [req EXCEPT ![i] = Rejected(r, o)]
              /\ alive' = (o # "exit")
       ELSE /\ req' = [req EXCEPT ![i] = r]
            /\ alive' = alive
  /\ UNCHANGED <<FIGMA_SECRET, figma_events>>

\* An insert under a unique index on file_key: a duplicate is dropped.
insertOneUnique(coll, doc) ==
  IF \E j \in 1..Len(coll) : coll[j].file_key = doc.file_key
  THEN coll ELSE Append(coll, doc)

\* An insert that is sent twice.
insertOneTwice(coll, doc) == Append(Append(coll, doc), doc)

\* An upsert keyed by file_key: the last writer replaces the record.
insertOneUpsert(coll, doc) ==
  IF \E j \in 1..Len(coll) : coll[j].file_key = doc.file_key
  THEN [j \in 1..Len(coll) |->
          IF coll[j].file_key = doc.file_key THEN doc ELSE coll[j]]
  ELSE Append(coll, doc)

\* The store's insert: FigmaEvent.create has sent the document (the
\* collection has no unique index other than _id).
insertOne(coll, doc) == Append(coll, doc)

DbInsert(i) ==
  /\ req[i].pc = "awaiting"
  /\ figma_events' = insertOne(figma_events, req[i].doc)
  /\ req' = [req EXCEPT ![i].pc = "inserted"]
  /\ UNCHANGED <<FIGMA_SECRET, alive>>

\* FigmaEvent.create rejects: the store is unavailable.
DbError(i) ==
  /\ alive
  /\ req[i].pc = "awaiting"
  /\ req' = [req EXCEPT ![i].pc = "dberror", ![i].err = TRUE]
  /\ UNCHANGED <<FIGMA_SECRET, figma_events, alive>>

\* res.status(200).json({ ok: true })
Ack(i) ==
  /\ alive
  /\ req[i].pc = "inserted"
  /\ req' = [req EXCEPT ![i].pc = "done", ![i].status = 200]
  /\ UNCHANGED <<FIGMA_SECRET, figma_events, alive>>

\* The catch block retrying the insert and acknowledging it.
FailRetry(i) ==
  /\ alive
  /\ req[i].pc = "dberror"
  /\ figma_events' = Append(figma_events, req[i].doc)
  /\ req' = [req EXCEPT ![i].pc = "done", ![i].status = 200]
  /\ UNCHANGED <<FIGMA_SECRET, alive>>

\* res.status(500).json({ error: 'Failed to process event' })
Fail(i) ==
  /\ alive
  /\ req[i].pc = "dberror"
  /\ req' = [req EXCEPT ![i].pc = "done", ![i].status = 500]
  /\ UNCHANGED <<FIGMA_SECRET, figma_events, alive>>

Next ==
  \E i \in ReqIds :
    \/ Deliver(i)
    \/ DbInsert(i)
    \/ DbError(i)
    \/ Ack(i)
    \/ Fail(i)

Spec == Init /\ [][Next]_vars

----------------------------------------------------------------------------
(* Vocabulary of the properties *)

Idx == 1..Len(figma_events)

\* The requests that reached the design-tool route handler.
Handled == {i \in ReqIds : req[i].route = FigmaPath /\ req[i].verdict # "none"}

\* The requests that reached the payment-processor route handler.
StripeHandled ==
  {i \in ReqIds : req[i].route = StripePath /\ req[i].verdict # "none"}

\* The records request i created.
RecordsOf(i) == {j \in Idx : figma_events[j]._id = i}

\* The records stored for an external id (the sender is the design tool).
RecordsFor(key) == {j \in Idx : figma_events[j].file_key = key}

\* Request i's store write has completed.
Written(i) == i \in Handled /\ req[i].doc # NoDoc /\ ~req[i].err
              /\ req[i].pc \in {"inserted", "done"}

\* Request i has been acknowledged with 200 by the design-tool route.
Acked(i) == i \in Handled /\ req[i].pc = "done" /\ req[i].status = 200

\* Two requests are deliveries of the same bytes with the same headers.
SameDelivery(i, j) ==
  /\ req[i].route = req[j].route /\ req[i].ctype = req[j].ctype
  /\ req[i].raw = req[j].raw /\ req[i].sig = req[j].sig

\* The digest the verifier computes for request i.
Digest(i) == HexDigest(Hmac(FIGMA_SECRET, JSONstringify(req[i].body.val)))

\* Two literal texts that differ in exactly one byte.
TextsOneByteApart(a, b) ==
  {a, b} \in {{" ", "\t"}, {"x", "y"},
              {"9007199254740992", "9007199254740993"}}

\* Two bodies of the same length that differ in exactly one byte.
OneByteApart(P, Q) ==
  /\ Len(P) = Len(Q)
  /\ \E n \in 1..Len(P) :
       /\ \A m \in 1..Len(P) : m # n => P[m] = Q[m]
       /\ P[n].t = Q[n].t /\ P[n].k = Q[n].k /\ P[n].type = Q[n].type
       /\ TextsOneByteApart(P[n].text, Q[n].text)

----------------------------------------------------------------------------
(* Properties *)

C3_VerifiedOnly ==
  /\ \A j \in Idx :
       LET i == figma_events[j]._id IN
       /\ i \in Handled
       /\ req[i].verdict = "true"
       /\ FIGMA_SECRET = "" \/ req[i].sig = Digest(i)
  /\ \A i \in ReqIds : req[i].verdict # "true" => RecordsOf(i) = {}

\* With a secret configured, one request was rejected and another stored.
C3_Witness ==
  /\ FIGMA_SECRET # ""
  /\ \E i, k \in Handled :
       /\ req[i].verdict = "false" /\ req[i].status = 401
       /\ RecordsOf(k) # {} /\ req[k].sig = Digest(k)

C5_LengthMismatchRejected ==
  \A i \in Handled :
    ( /\ FIGMA_SECRET # ""
      /\ req[i].sig.present
      /\ req[i].sig.len # DigestLen )
    => /\ req[i].verdict = "false"
       /\ req[i].status = 401
       /\ RecordsOf(i) = {}

\* C6 as stated: with a secret configured, a body that differs in one byte
\* from a body P and carries P's valid signature header is not accepted.
C6_MutationRejected ==
  \A i \in Handled :
    \A P \in WireBodies :
      ( /\ FIGMA_SECRET = SenderSecret
        /\ Parseable(P)
        /\ OneByteApart(P, req[i].raw)
        /\ req[i].sig = Signed(P) )
      => req[i].verdict # "true"

\* C7 as stated: with a secret configured, a request whose header is the
\* hex HMAC-SHA256 of its wire bytes under that secret is accepted.
C7_WireSignedAccepted ==
  \A i \in Handled :
    ( /\ FIGMA_SECRET = SenderSecret
      /\ req[i].ctype = JsonType
      /\ req[i].sig = Signed(req[i].raw) )
    => req[i].verdict = "true"

C9_InsecureMode ==
  FIGMA_SECRET = "" =>
    \A i \in Handled :
      /\ req[i].verdict = "true"
      /\ req[i].pc \in {"awaiting", "inserted", "dberror", "done"}
      /\ (req[i].pc = "done" /\ ~req[i].err) =>
           /\ req[i].status = 200
           /\ \E j \in RecordsOf(i) :
                req[i].ctype = JsonType =>
                  /\ figma_events[j].payload = RestProps(JSONparse(req[i].raw))
                  /\ figma_events[j].file_key
                       = GetProp(JSONparse(req[i].raw), "file_key")
      /\ req[i].status = 200 => RecordsOf(i) # {}

\* With no secret, a request without the header and a request whose header
\* is not the digest are both stored and acknowledged.
C9_Witness ==
  /\ FIGMA_SECRET = ""
  /\ \E i, k \in Handled :
       /\ ~req[i].sig.present /\ Acked(i) /\ RecordsOf(i) # {}
       /\ req[k].sig.present /\ req[k].sig.len # DigestLen
       /\ Acked(k) /\ RecordsOf(k) # {}

\* C10 as stated: for every request to the payment-processor route the
\* body handed to verification is the raw request bytes and express.json
\* has not run on the request.
C10_RawBodyAlways ==
  \A i \in StripeHandled :
    /\ req[i].body = [kind |-> "raw", val |-> req[i].raw]
    /\ \A n \in 1..Len(req[i].ran) : req[i].ran[n] # "express.json"

\* C10, amended: for every request to the payment-processor route,
\* express.json never runs on the request and the verifier never receives
\* a parsed body; the body it receives is the raw request bytes when the
\* Content-Type is application/json, and otherwise the parser's empty
\* placeholder, which verification rejects.
C10_RawBeforeParse ==
  \A i \in StripeHandled :
    /\ \A n \in 1..Len(req[i].ran) : req[i].ran[n] # "express.json"
    /\ req[i].body.kind # "parsed"
    /\ req[i].ctype = JsonType =>
         req[i].body = [kind |-> "raw", val |-> req[i].raw]
    /\ req[i].ctype # JsonType =>
         /\ req[i].body.kind = "empty"
         /\ req[i].verdict = "false"

\* A payment-processor request was verified over its raw bytes and
\* another, with a different Content-Type, was refused.
C10_Witness ==
  \E i, k \in StripeHandled :
    /\ req[i].ctype = JsonType /\ req[i].verdict = "true"
    /\ req[i].body.val = req[i].raw /\ req[i].status = 200
    /\ req[k].ctype # JsonType /\ req[k].verdict = "false"


----------------------------------------------------------------------------
(* Properties of the store write, the parsers and the payment route *)

\* The records in the store that requests to the payment-processor route
\* created.
StripeRecords == {j \in Idx : req[figma_events[j]._id].route = StripePath}

\* The event a verified payment-processor request carries.
EventOf(i) == JSONparse(req[i].raw)

IsCheckout(i) ==
  GetProp(EventOf(i), "type").val = "checkout.session.completed"

\* C11: a design-tool request has the status 200 only when its record is
\* in the store; a request whose store write failed has no record, is
\* answered 500 and nothing else once it is answered, and no request has
\* more than one record (no write is repeated).
C11_StoreBeforeAck ==
  \A i \in Handled :
    /\ req[i].status = 200 =>
         \E j \in RecordsOf(i) : figma_events[j] = req[i].doc
    /\ req[i].err =>
         /\ RecordsOf(i) = {}
         /\ req[i].pc \in {"dberror", "done"}
         /\ req[i].pc = "done" => req[i].status = 500
    /\ Cardinality(RecordsOf(i)) <= 1

\* One request's write failed and it was answered 500 with no record,
\* while another was stored and acknowledged.
C11_Witness ==
  \E i, k \in Handled :
    /\ req[i].err /\ req[i].pc = "done" /\ req[i].status = 500
    /\ RecordsOf(i) = {}
    /\ Acked(k) /\ RecordsOf(k) # {}

C15_GrantOnCheckout ==
  \A i \in StripeHandled :
    req[i].verdict = "true" =>
      IF IsCheckout(i)
      THEN req[i].grant = GetProp(EventOf(i), "customer").val
      ELSE req[i].grant = ""

\* C16: every stored record's event_type and file_key are the top-level
\* event_type and file_key of the body of the request that created it, its
\* payload holds every other top-level member of that body with its value,
\* in order, and nothing else, whatever the event type is.
C16_Normalized ==
  \A j \in Idx :
    LET i == figma_events[j]._id
        body == IF req[i].ctype = JsonType THEN JSONparse(req[i].raw) ELSE <<>>
        rec == figma_events[j]
    IN /\ rec.event_type = GetProp(body, "event_type")
       /\ rec.file_key = GetProp(body, "file_key")
       /\ \A n \in 1..Len(body) :
            body[n].k \notin {"event_type", "file_key"} =>
              \E m \in 1..Len(rec.payload) : rec.payload[m] = body[n]
       /\ \A m \in 1..Len(rec.payload) :
            /\ rec.payload[m].k \notin {"event_type", "file_key"}
            /\ \E n \in 1..Len(body) : body[n] = rec.payload[m]

\* Records of two event types are stored, each with its payload member.
C16_Witness ==
  \E a, b \in Idx :
    /\ figma_events[a].event_type.val = "file_update"
    /\ figma_events[a].payload = <<[k |-> "extra",
                                    v |-> [type |-> "string", val |-> "x"]]>>
    /\ figma_events[b].event_type.val = "file_comment"
    /\ Len(figma_events[b].payload) = 1

\* C17: no step removes or changes a record of the event store: every
\* record is at its place with the same fields after the step.
C17_Immutable ==
  [][\A j \in 1..Len(figma_events) :
       /\ j <= Len(figma_events')
       /\ figma_events'[j] = figma_events[j]]_vars

\* After a record was stored, a second delivery for the same file was
\* stored too and the first record is still the first.
C17_Witness ==
  /\ Len(figma_events) = 2
  /\ figma_events[1]._id = 1 /\ figma_events[1] = req[1].doc
  /\ figma_events[2].file_key = figma_events[1].file_key
  /\ Acked(1) /\ Acked(2)

\* C18 as stated, for a finite run: a request that reached a route handler
\* and has no continuation pending has received its response.
C18_AlwaysAnswered ==
  \A i \in Handled \cup StripeHandled :
    req[i].pc \notin {"awaiting", "inserted", "dberror"} => req[i].status # 0

====
